---- MODULE Spec2Model ----
(***************************************************************************)
(* Receipt OCR pipeline of backend/app.py: EnhancedReceiptOCR and the      *)
(* /api/scan-receipt handler.  Text is a sequence of one-character         *)
(* strings; the regular expressions of the source are syntax trees         *)
(* interpreted by a backtracking matcher with Python's priorities.         *)
(***************************************************************************)
EXTENDS Integers, Sequences, FiniteSets, TLC

(* ------------------------------------------------------------------ *)
(* Characters and str helpers                                          *)
(* ------------------------------------------------------------------ *)

Digits == {"0", "1", "2", "3", "4", "5", "6", "7", "8", "9"}

UpperSeq ==
  <<"A", "B", "C", "D", "E", "F", "G", "H", "I", "J", "K", "L", "M",
    "N", "O", "P", "Q", "R", "S", "T", "U", "V", "W", "X", "Y", "Z">>

LowerSeq ==
  <<"a", "b", "c", "d", "e", "f", "g", "h", "i", "j", "k", "l", "m",
    "n", "o", "p", "q", "r", "s", "t", "u", "v", "w", "x", "y", "z">>

UpperSet == {UpperSeq[k] : k \in 1..26}

LowerSet == {LowerSeq[k] : k \in 1..26}

\* \w of re (ASCII part)
WordChars == UpperSet \cup LowerSet \cup Digits \cup {"_"}

\* \s of re, and the characters str.strip() and str.split() remove
Whitespace == {" ", "\t", "\n", "\r", "\f"}

\* the other case of each cased character
SwapMap ==
  [c \in UpperSet \cup LowerSet |->
     IF c \in UpperSet THEN LowerSeq[CHOOSE k \in 1..26 : UpperSeq[k] = c]
     ELSE UpperSeq[CHOOSE k \in 1..26 : LowerSeq[k] = c]]

\* the other case of a cased character (re.IGNORECASE), else the character
SwapCase(c) == IF c \in DOMAIN SwapMap THEN SwapMap[c] ELSE c

\* str.lower()
lower(s) ==
  [k \in 1..Len(s) |-> IF s[k] \in UpperSet THEN SwapCase(s[k]) ELSE s[k]]

\* the least and the greatest element of a non-empty set of integers
Least(S) == CHOOSE k \in S : \A j \in S : k <= j

Greatest(S) == CHOOSE k \in S : \A j \in S : j <= k

\* str.strip()
strip(s) ==
  IF \A k \in 1..Len(s) : s[k] \in Whitespace THEN <<>>
  ELSE LET first == CHOOSE k \in 1..Len(s) :
                      s[k] \notin Whitespace
                      /\ \A j \in 1..(k - 1) : s[j] \in Whitespace
           last == CHOOSE k \in 1..Len(s) :
                     s[k] \notin Whitespace
                     /\ \A j \in (k + 1)..Len(s) : s[j] \in Whitespace
       IN SubSeq(s, first, last)

\* s.split(sep) for a one-character separator, from position `from` on: the
\* pieces, empty ones kept
RECURSIVE split(_, _, _)
split(s, sep, from) ==
  IF \A k \in from..Len(s) : s[k] # sep THEN <<SubSeq(s, from, Len(s))>>
  ELSE LET at == CHOOSE k \in from..Len(s) :
                   s[k] = sep /\ \A j \in from..(k - 1) : s[j] # sep
       IN <<SubSeq(s, from, at - 1)>> \o split(s, sep, at + 1)

\* s.split() without argument, from position `from` on: the
\* whitespace-separated words
RECURSIVE split_ws(_, _)
split_ws(s, from) ==
  IF \A k \in from..Len(s) : s[k] \in Whitespace THEN <<>>
  ELSE LET first == CHOOSE k \in from..Len(s) :
                      s[k] \notin Whitespace
                      /\ \A j \in from..(k - 1) : s[j] \in Whitespace
       IN IF \A k \in first..Len(s) : s[k] \notin Whitespace
          THEN <<SubSeq(s, first, Len(s))>>
          ELSE LET gap == CHOOSE k \in first..Len(s) :
                            s[k] \in Whitespace
                            /\ \A j \in first..(k - 1) : s[j] \notin Whitespace
               IN <<SubSeq(s, first, gap - 1)>> \o split_ws(s, gap)

\* sep.join(parts)
RECURSIVE join(_, _)
join(sep, parts) ==
  IF Len(parts) = 0 THEN <<>>
  ELSE IF Len(parts) = 1 THEN parts[1]
  ELSE parts[1] \o sep \o join(sep, Tail(parts))

\* str.zfill(width)
RECURSIVE zfill(_, _)
zfill(s, width) == IF Len(s) >= width THEN s ELSE zfill(<<"0">> \o s, width)

DigitValue(c) ==
  CASE c = "0" -> 0 [] c = "1" -> 1 [] c = "2" -> 2 [] c = "3" -> 3
    [] c = "4" -> 4 [] c = "5" -> 5 [] c = "6" -> 6 [] c = "7" -> 7
    [] c = "8" -> 8 [] c = "9" -> 9

\* int(s) for a string of decimal digits; ValueError (empty string) is -1
RECURSIVE int_acc(_, _)
int_acc(s, acc) ==
  IF Len(s) = 0 THEN acc ELSE int_acc(Tail(s), 10 * acc + DigitValue(Head(s)))

ValueError == -1

int(s) == IF Len(s) = 0 THEN ValueError ELSE int_acc(s, 0)

\* re.sub(r'[^\d]', '', s)
digits_only(s) == SelectSeq(s, LAMBDA c : c \in Digits)

(* ------------------------------------------------------------------ *)
(* Regular expressions: syntax trees and re.search                     *)
(* ------------------------------------------------------------------ *)

INF == -1

Set(cs) == [t |-> "set", cs |-> cs, neg |-> FALSE]

NotSet(cs) == [t |-> "set", cs |-> cs, neg |-> TRUE]

Cat(xs) == [t |-> "cat", xs |-> xs]

Alt(xs) == [t |-> "alt", xs |-> xs]

Rep(x, lo, hi) == [t |-> "rep", x |-> x, lo |-> lo, hi |-> hi, greedy |-> TRUE]

Lazy(x, lo, hi) == [t |-> "rep", x |-> x, lo |-> lo, hi |-> hi, greedy |-> FALSE]

Opt(x) == Rep(x, 0, 1)

Grp(k, x) == [t |-> "grp", k |-> k, x |-> x]

Bol == [t |-> "bol"]

Eol == [t |-> "eol"]

\* a literal word, one character after the other
Lit(w) == Cat([k \in 1..Len(w) |-> Set({w[k]})])

\* .  (no DOTALL)
Dot == NotSet({"\n"})

MaxGroups == 4

NoMatch == [ok |-> FALSE, start |-> 0, end |-> 0, caps |-> <<>>]

\* whether character c is in the class n, under re.IGNORECASE when ic
InSet(c, n, ic) ==
  ((c \in n.cs) \/ (ic /\ SwapCase(c) \in n.cs)) # n.neg

\* the number of consecutive characters of s, from position i on, in class n
run_length(n, s, i, ic) ==
  CHOOSE k \in 0..(Len(s) + 1 - i) :
    /\ \A j \in 0..(k - 1) : InSet(s[i + j], n, ic)
    /\ (i + k > Len(s) \/ ~InSet(s[i + k], n, ic))

\* Backtracking match of the nodes of `stack`, in sequence, at position i of
\* s: the first match in priority order (greedy: longer first; lazy: shorter
\* first; alternation: left first).
RECURSIVE M(_, _, _, _, _), rep_set(_, _, _, _, _, _, _, _)
M(stack, s, i, caps, ic) ==
  IF Len(stack) = 0 THEN [ok |-> TRUE, start |-> 0, end |-> i, caps |-> caps]
  ELSE
    LET n == Head(stack)
        rest == Tail(stack)
    IN CASE n.t = "set" ->
              IF i <= Len(s) /\ InSet(s[i], n, ic)
              THEN M(rest, s, i + 1, caps, ic) ELSE NoMatch
         [] n.t = "cat" -> M(n.xs \o rest, s, i, caps, ic)
         [] n.t = "alt" ->
              IF Len(n.xs) = 0 THEN NoMatch
              ELSE LET r == M(<<Head(n.xs)>> \o rest, s, i, caps, ic)
                   IN IF r.ok THEN r
                      ELSE M(<<Alt(Tail(n.xs))>> \o rest, s, i, caps, ic)
         [] n.t = "rep" /\ n.x.t = "set" ->
              LET avail == IF i > Len(s) THEN 0 ELSE run_length(n.x, s, i, ic)
                  most == IF n.hi # INF /\ n.hi < avail THEN n.hi ELSE avail
              IN IF n.lo > most THEN NoMatch
                 ELSE IF n.greedy
                 THEN rep_set(rest, s, i, caps, ic, most, n.lo, -1)
                 ELSE rep_set(rest, s, i, caps, ic, n.lo, most, 1)
         [] n.t = "rep" /\ n.x.t # "set" ->
              LET again == [n EXCEPT !.lo = IF n.lo > 0 THEN n.lo - 1 ELSE 0,
                                     !.hi = IF n.hi = INF THEN INF ELSE n.hi - 1]
                  more == IF n.hi = 0 THEN NoMatch
                          ELSE M(<<n.x, again>> \o rest, s, i, caps, ic)
                  stop == IF n.lo > 0 THEN NoMatch
                          ELSE M(rest, s, i, caps, ic)
              IN IF n.greedy
                 THEN (IF more.ok THEN more ELSE stop)
                 ELSE (IF stop.ok THEN stop ELSE more)
         [] n.t = "grp" ->
              M(<<n.x, [t |-> "close", k |-> n.k, from |-> i]>> \o rest,
                s, i, caps, ic)
         [] n.t = "close" ->
              M(rest, s, i, [caps EXCEPT ![n.k] = <<n.from, i>>], ic)
         [] n.t = "bol" ->
              IF i = 1 THEN M(rest, s, i, caps, ic) ELSE NoMatch
         [] n.t = "eol" ->
              IF i = Len(s) + 1 \/ (i = Len(s) /\ s[i] = "\n")
              THEN M(rest, s, i, caps, ic) ELSE NoMatch

\* A repeated character class: k repetitions are taken and the rest of the
\* stack matched; on failure the next count towards `last` is tried.
rep_set(rest, s, i, caps, ic, k, last, dir) ==
  LET r == M(rest, s, i + k, caps, ic)
  IN IF r.ok THEN r
     ELSE IF k = last THEN NoMatch
     ELSE rep_set(rest, s, i, caps, ic, k + dir, last, dir)

RECURSIVE search_from(_, _, _, _)
search_from(re, s, i, ic) ==
  IF i > Len(s) + 1 THEN NoMatch
  ELSE LET r == M(<<re>>, s, i, [k \in 1..MaxGroups |-> <<0, 0>>], ic)
       IN IF r.ok THEN [r EXCEPT !.start = i]
          ELSE search_from(re, s, i + 1, ic)

\* re.search(re, s) / re.search(re, s, re.IGNORECASE): leftmost match
search(re, s, ic) == search_from(re, s, 1, ic)

\* match.group(k)
group(s, m, k) == SubSeq(s, m.caps[k][1], m.caps[k][2] - 1)

(* ------------------------------------------------------------------ *)
(* The patterns of smart_parse_receipt and extract_items_smart         *)
(* ------------------------------------------------------------------ *)

Digit == Set(Digits)

\* \s
Ws == Set(Whitespace)

\* [\/\-\.]
DateSep == Set({"/", "-", "."})

\* [\d\.,]
Amount == Set(Digits \cup {".", ","})

\* (?:RP\.?|IDR|Rp)
Currency ==
  Alt(<<Cat(<<Lit(<<"R", "P">>), Opt(Set({"."}))>>),
        Lit(<<"I", "D", "R">>),
        Lit(<<"R", "p">>)>>)

TOTAL == Lit(<<"T", "O", "T", "A", "L">>)

JUMLAH == Lit(<<"J", "U", "M", "L", "A", "H">>)

\* (Jan|Feb|Mar|Apr|May|Jun|Jul|Aug|Sep|Oct|Nov|Dec)
MonthAbbrev ==
  Alt(<<Lit(<<"J", "a", "n">>), Lit(<<"F", "e", "b">>), Lit(<<"M", "a", "r">>),
        Lit(<<"A", "p", "r">>), Lit(<<"M", "a", "y">>), Lit(<<"J", "u", "n">>),
        Lit(<<"J", "u", "l">>), Lit(<<"A", "u", "g">>), Lit(<<"S", "e", "p">>),
        Lit(<<"O", "c", "t">>), Lit(<<"N", "o", "v">>), Lit(<<"D", "e", "c">>)>>)

\* r'\d{3,}'
digit_run == Rep(Digit, 3, INF)

\* r'[^\w\s&.-]'
not_name_char == NotSet(WordChars \cup Whitespace \cup {"&", ".", "-"})

date_patterns ==
  << \* (\d{1,2})[\/\-\.](\d{1,2})[\/\-\.](\d{2,4})
     Cat(<<Grp(1, Rep(Digit, 1, 2)), DateSep, Grp(2, Rep(Digit, 1, 2)),
           DateSep, Grp(3, Rep(Digit, 2, 4))>>),
     \* (\d{2,4})[\/\-\.](\d{1,2})[\/\-\.](\d{1,2})
     Cat(<<Grp(1, Rep(Digit, 2, 4)), DateSep, Grp(2, Rep(Digit, 1, 2)),
           DateSep, Grp(3, Rep(Digit, 1, 2))>>),
     \* (\d{1,2})\s+(Jan|...|Dec)\s+(\d{2,4})
     Cat(<<Grp(1, Rep(Digit, 1, 2)), Rep(Ws, 1, INF), Grp(2, MonthAbbrev),
           Rep(Ws, 1, INF), Grp(3, Rep(Digit, 2, 4))>>) >>

total_patterns ==
  << \* (?:TOTAL|GRAND\s*TOTAL|SUB\s*TOTAL|HARGA\s*JUAL)\s*:?\s*(?:RP\.?|IDR|Rp)?\s*([\d\.,]+)
     Cat(<<Alt(<<TOTAL,
                 Cat(<<Lit(<<"G", "R", "A", "N", "D">>), Rep(Ws, 0, INF), TOTAL>>),
                 Cat(<<Lit(<<"S", "U", "B">>), Rep(Ws, 0, INF), TOTAL>>),
                 Cat(<<Lit(<<"H", "A", "R", "G", "A">>), Rep(Ws, 0, INF),
                       Lit(<<"J", "U", "A", "L">>)>>)>>),
           Rep(Ws, 0, INF), Opt(Set({":"})), Rep(Ws, 0, INF), Opt(Currency),
           Rep(Ws, 0, INF), Grp(1, Rep(Amount, 1, INF))>>),
     \* (?:RP\.?|IDR|Rp)\s*([\d\.,]+)(?:\s*(?:TOTAL|JUMLAH))?
     Cat(<<Currency, Rep(Ws, 0, INF), Grp(1, Rep(Amount, 1, INF)),
           Opt(Cat(<<Rep(Ws, 0, INF), Alt(<<TOTAL, JUMLAH>>)>>))>>),
     \* TOTAL.*?([\d\.,]{4,})
     Cat(<<TOTAL, Lazy(Dot, 0, INF), Grp(1, Rep(Amount, 4, INF))>>),
     \* ([\d\.,]{4,})\s*(?:TOTAL|JUMLAH)
     Cat(<<Grp(1, Rep(Amount, 4, INF)), Rep(Ws, 0, INF),
           Alt(<<TOTAL, JUMLAH>>)>>) >>

\* the item patterns, each with its number of groups (len(match.groups()))
patterns ==
  << \* ^(.+?)\s+(\d+)\s+(?:RP\.?|IDR|Rp)?\s*([\d\.,]+)\s+(?:RP\.?|IDR|Rp)?\s*([\d\.,]+)$
     [ngroups |-> 4,
      re |-> Cat(<<Bol, Grp(1, Lazy(Dot, 1, INF)), Rep(Ws, 1, INF),
                   Grp(2, Rep(Digit, 1, INF)), Rep(Ws, 1, INF), Opt(Currency),
                   Rep(Ws, 0, INF), Grp(3, Rep(Amount, 1, INF)),
                   Rep(Ws, 1, INF), Opt(Currency), Rep(Ws, 0, INF),
                   Grp(4, Rep(Amount, 1, INF)), Eol>>)],
     \* ^(.+?)\s+(\d+)\s*[xX*]\s*(?:RP\.?|IDR|Rp)?\s*([\d\.,]+)
     [ngroups |-> 3,
      re |-> Cat(<<Bol, Grp(1, Lazy(Dot, 1, INF)), Rep(Ws, 1, INF),
                   Grp(2, Rep(Digit, 1, INF)), Rep(Ws, 0, INF),
                   Set({"x", "X", "*"}), Rep(Ws, 0, INF), Opt(Currency),
                   Rep(Ws, 0, INF), Grp(3, Rep(Amount, 1, INF))>>)],
     \* ^(.+?)\s+(?:RP\.?|IDR|Rp)?\s*([\d\.,]{4,})$
     [ngroups |-> 2,
      re |-> Cat(<<Bol, Grp(1, Lazy(Dot, 1, INF)), Rep(Ws, 1, INF),
                   Opt(Currency), Rep(Ws, 0, INF),
                   Grp(2, Rep(Amount, 4, INF)), Eol>>)],
     \* ^(.+?)\s*\((\d+)\)\s*(?:RP\.?|IDR|Rp)?\s*([\d\.,]+)
     [ngroups |-> 3,
      re |-> Cat(<<Bol, Grp(1, Lazy(Dot, 1, INF)), Rep(Ws, 0, INF),
                   Set({"("}), Grp(2, Rep(Digit, 1, INF)), Set({")"}),
                   Rep(Ws, 0, INF), Opt(Currency), Rep(Ws, 0, INF),
                   Grp(3, Rep(Amount, 1, INF))>>)] >>

\* (?:NAMA|ITEM|QTY|HARGA|TOTAL|GRAND|SUB|KASIR|TANGGAL|NO\.)
header_footer ==
  Alt(<<Lit(<<"N", "A", "M", "A">>), Lit(<<"I", "T", "E", "M">>),
        Lit(<<"Q", "T", "Y">>), Lit(<<"H", "A", "R", "G", "A">>), TOTAL,
        Lit(<<"G", "R", "A", "N", "D">>), Lit(<<"S", "U", "B">>),
        Lit(<<"K", "A", "S", "I", "R">>),
        Lit(<<"T", "A", "N", "G", "G", "A", "L">>), Lit(<<"N", "O", ".">>)>>)

(* ------------------------------------------------------------------ *)
(* EnhancedReceiptOCR.extract_items_smart                              *)
(* ------------------------------------------------------------------ *)

abs(x) == IF x < 0 THEN -x ELSE x

\* a tolerance of 25% of the line total
within_quarter(quantity, unit_price, total_price) ==
  100 * abs(quantity * unit_price - total_price) <= 25 * total_price

\* abs(quantity * unit_price - total_price) <= total_price * 0.15
within_tolerance(quantity, unit_price, total_price) ==
  100 * abs(quantity * unit_price - total_price) <= 15 * total_price

\* the pattern loop going on to the next pattern after a 4-group match that
\* fails the arithmetic check
RECURSIVE item_of_line_falling_through(_, _)
item_of_line_falling_through(line, p) ==
  IF p > Len(patterns) THEN <<>>
  ELSE
    LET m == search(patterns[p].re, line, TRUE)
        n == patterns[p].ngroups
    IN IF ~m.ok THEN item_of_line_falling_through(line, p + 1)
       ELSE IF n = 4 THEN
         LET name == strip(group(line, m, 1))
             quantity == int(group(line, m, 2))
             unit_price == int(digits_only(group(line, m, 3)))
             total_price == int(digits_only(group(line, m, 4)))
         IN IF unit_price = ValueError \/ total_price = ValueError
            THEN item_of_line_falling_through(line, p + 1)
            ELSE IF unit_price > 0
                    /\ within_tolerance(quantity, unit_price, total_price)
                 THEN <<[name |-> name, quantity |-> quantity,
                         price |-> unit_price]>>
                 ELSE item_of_line_falling_through(line, p + 1)
       ELSE IF n = 3 THEN
         LET name == strip(group(line, m, 1))
             quantity == int(group(line, m, 2))
             price == int(digits_only(group(line, m, 3)))
         IN IF price = ValueError THEN item_of_line_falling_through(line, p + 1)
            ELSE IF price > 0 /\ quantity > 0
                 THEN <<[name |-> name, quantity |-> quantity, price |-> price]>>
                 ELSE <<>>
       ELSE
         LET name == strip(group(line, m, 1))
             price == int(digits_only(group(line, m, 2)))
         IN IF price = ValueError THEN item_of_line_falling_through(line, p + 1)
            ELSE IF price > 1000 /\ Len(name) > 2
                 THEN <<[name |-> name, quantity |-> 1, price |-> price]>>
                 ELSE <<>>

\* The body of `for pattern in patterns` for one line, from pattern p on:
\* the items the line appends (none or one).  An exception in the try block
\* is `continue` (the next pattern); a handled match is `break`.
RECURSIVE item_of_line(_, _)
item_of_line(line, p) ==
  IF p > Len(patterns) THEN <<>>
  ELSE
    LET m == search(patterns[p].re, line, TRUE)
        n == patterns[p].ngroups
    IN IF ~m.ok THEN item_of_line(line, p + 1)
       ELSE IF n = 4 THEN
         LET name == strip(group(line, m, 1))
             quantity == int(group(line, m, 2))
             unit_price == int(digits_only(group(line, m, 3)))
             total_price == int(digits_only(group(line, m, 4)))
         IN IF unit_price = ValueError \/ total_price = ValueError
            THEN item_of_line(line, p + 1)
            ELSE IF unit_price > 0
                    /\ within_tolerance(quantity, unit_price, total_price)
                 THEN <<[name |-> name, quantity |-> quantity,
                         price |-> unit_price]>>
                 ELSE <<>>
       ELSE IF n = 3 THEN
         LET name == strip(group(line, m, 1))
             quantity == int(group(line, m, 2))
             price == int(digits_only(group(line, m, 3)))
         IN IF price = ValueError THEN item_of_line(line, p + 1)
            ELSE IF price > 0 /\ quantity > 0
                 THEN <<[name |-> name, quantity |-> quantity, price |-> price]>>
                 ELSE <<>>
       ELSE
         LET name == strip(group(line, m, 1))
             price == int(digits_only(group(line, m, 2)))
         IN IF price = ValueError THEN item_of_line(line, p + 1)
            ELSE IF price > 1000 /\ Len(name) > 2
                 THEN <<[name |-> name, quantity |-> 1, price |-> price]>>
                 ELSE <<>>

\* no line skipped as a header or footer line
never_header_footer(line) == FALSE

\* whether the line is skipped as a header or footer line
is_header_footer(line) == search(header_footer, line, TRUE).ok

\* `for line in lines`: the candidate items, in line order
RECURSIVE collect_items(_)
collect_items(lines) ==
  IF Len(lines) = 0 THEN <<>>
  ELSE (IF is_header_footer(Head(lines)) THEN <<>>
        ELSE item_of_line(Head(lines), 1))
       \o collect_items(Tail(lines))

\* a key that keeps the letter case of the name
item_key_exact(item) == <<strip(item.name), item.price>>

\* key = (item['name'].lower().strip(), item['price'])
item_key(item) == <<strip(lower(item.name)), item.price>>

\* "Remove duplicates and filter out invalid items"
RECURSIVE filter_items(_, _)
filter_items(items, seen) ==
  IF Len(items) = 0 THEN <<>>
  ELSE LET item == Head(items)
       IN IF Len(item.name) > 0 /\ item.price > 0 /\ item_key(item) \notin seen
          THEN <<item>> \o filter_items(Tail(items), seen \cup {item_key(item)})
          ELSE filter_items(Tail(items), seen)

extract_items_smart(lines) == filter_items(collect_items(lines), {})

(* ------------------------------------------------------------------ *)
(* EnhancedReceiptOCR.calculate_confidence, in hundredths              *)
(* ------------------------------------------------------------------ *)

\* calculate_confidence with the total weighing 0.30 instead of 0.35
calculate_confidence_low_total(parsed_data, raw_text) ==
  LET s1 == IF Len(parsed_data.merchantName) > 0 THEN 25 ELSE 0
      s2 == IF parsed_data.total > 0 THEN 30 ELSE 0
      s3 == IF Len(parsed_data.items) > 0
               /\ \E k \in 1..Len(parsed_data.items) :
                     Len(parsed_data.items[k].name) > 0
            THEN 25 ELSE 0
      s4 == IF Len(raw_text) > 50 THEN 15 ELSE 0
      score == s1 + s2 + s3 + s4
  IN IF score < 100 THEN score ELSE 100

calculate_confidence(parsed_data, raw_text) ==
  LET s1 == IF Len(parsed_data.merchantName) > 0 THEN 25 ELSE 0
      s2 == IF parsed_data.total > 0 THEN 35 ELSE 0
      s3 == IF Len(parsed_data.items) > 0
               /\ \E k \in 1..Len(parsed_data.items) :
                     Len(parsed_data.items[k].name) > 0
            THEN 25 ELSE 0
      s4 == IF Len(raw_text) > 50 THEN 15 ELSE 0
      score == s1 + s2 + s3 + s4
  IN IF score < 100 THEN score ELSE 100

(* ------------------------------------------------------------------ *)
(* EnhancedReceiptOCR.smart_parse_receipt                              *)
(* ------------------------------------------------------------------ *)

\* [line.strip() for line in text.split('\n') if line.strip()]
RECURSIVE strip_nonempty(_)
strip_nonempty(raw) ==
  IF Len(raw) = 0 THEN <<>>
  ELSE (IF Len(strip(Head(raw))) > 0 THEN <<strip(Head(raw))>> ELSE <<>>)
       \o strip_nonempty(Tail(raw))

lines_of(text) == strip_nonempty(split(text, "\n", 1))

\* re.sub(r'[^\w\s&.-]', ' ', line), then ' '.join(cleaned.split())
clean_name(line) ==
  join(<<" ">>,
       split_ws([k \in 1..Len(line) |->
                   IF InSet(line[k], not_name_char, FALSE) THEN " " ELSE line[k]],
                1))

\* `for i, line in enumerate(lines[:5])`: the first qualifying line, cleaned
RECURSIVE merchant_loop(_)
merchant_loop(ls) ==
  IF Len(ls) = 0 THEN <<>>
  ELSE LET line == Head(ls)
       IN IF ~search(digit_run, line, FALSE).ok /\ Len(line) > 3 /\ Len(line) < 50
             /\ Len(clean_name(line)) > 3
          THEN clean_name(line)
          ELSE merchant_loop(Tail(ls))

\* the merchant looked for in every line
extract_merchant_unbounded(lines) == merchant_loop(lines)

\* lines[:5]
extract_merchant(lines) ==
  merchant_loop(SubSeq(lines, 1, IF Len(lines) < 5 THEN Len(lines) ELSE 5))

\* the date written year-day-month
iso_date_day_first(year, month, day) ==
  year \o <<"-">> \o zfill(day, 2) \o <<"-">> \o zfill(month, 2)

\* f"{year}-{month.zfill(2)}-{day.zfill(2)}"
iso_date(year, month, day) ==
  year \o <<"-">> \o zfill(month, 2) \o <<"-">> \o zfill(day, 2)

\* if len(year) == 2: year = f"20{year}"
expand_year(year) == IF Len(year) = 2 THEN <<"2", "0">> \o year ELSE year

\* the inner `for pattern in date_patterns` for one line: the date after it
RECURSIVE date_of_line(_, _, _)
date_of_line(line, p, date) ==
  IF p > Len(date_patterns) THEN date
  ELSE LET m == search(date_patterns[p], line, TRUE)
       IN IF ~m.ok THEN date_of_line(line, p + 1, date)
          ELSE IF p = 1 THEN
            iso_date(expand_year(group(line, m, 3)), group(line, m, 2),
                     group(line, m, 1))
          ELSE IF p = 2 THEN
            iso_date(group(line, m, 1), group(line, m, 2), group(line, m, 3))
          ELSE date

\* `for line in lines` of the date extraction (the break leaves the inner
\* loop only)
RECURSIVE extract_date(_, _)
extract_date(lines, date) ==
  IF Len(lines) = 0 THEN date
  ELSE extract_date(Tail(lines), date_of_line(Head(lines), 1, date))

\* a total taken from a capture of any number of digits
RECURSIVE total_of_any_digits(_, _, _)
total_of_any_digits(line, p, total) ==
  IF p > Len(total_patterns) THEN total
  ELSE LET m == search(total_patterns[p], line, TRUE)
           amount_str == digits_only(group(line, m, 1))
       IN IF m.ok /\ Len(amount_str) >= 1 THEN int(amount_str)
          ELSE total_of_any_digits(line, p + 1, total)

\* the inner `for pattern in total_patterns` for one line: the total after it
RECURSIVE total_of_line(_, _, _)
total_of_line(line, p, total) ==
  IF p > Len(total_patterns) THEN total
  ELSE LET m == search(total_patterns[p], line, TRUE)
           amount_str == digits_only(group(line, m, 1))
       IN IF m.ok /\ Len(amount_str) >= 3 THEN int(amount_str)
          ELSE total_of_line(line, p + 1, total)

\* `for line in lines` of the total extraction
RECURSIVE extract_total(_, _)
extract_total(lines, total) ==
  IF Len(lines) = 0 THEN total
  ELSE LET t == total_of_line(Head(lines), 1, total)
       IN IF t > 0 THEN t ELSE extract_total(Tail(lines), t)

placeholder_item == [name |-> <<>>, quantity |-> 1, price |-> 0]

\* parsed_data first built without the current date
new_parsed_data_no_date(text, today) ==
  [merchantName |-> <<>>, date |-> <<>>, items |-> <<>>, total |-> 0,
   confidence |-> 0, raw_text |-> text]

\* parsed_data as first built, datetime.now() being `today`
new_parsed_data(text, today) ==
  [merchantName |-> <<>>, date |-> today, items |-> <<>>, total |-> 0,
   confidence |-> 0, raw_text |-> text]

\* no placeholder added
without_placeholder(items) == items

\* the empty item added whatever was found
with_placeholder_appended(items) == Append(items, placeholder_item)

\* "If no items found, add one empty item"
with_placeholder(items) ==
  IF Len(items) = 0 THEN <<placeholder_item>> ELSE items

\* the record smart_parse_receipt(text) returns when datetime.now() is `today`
smart_parse_receipt(text, today) ==
  LET lines == lines_of(text)
      d0 == new_parsed_data(text, today)
      d1 == [d0 EXCEPT !.merchantName = extract_merchant(lines)]
      d2 == [d1 EXCEPT !.date = extract_date(lines, @)]
      d3 == [d2 EXCEPT !.total = extract_total(lines, @)]
      d4 == [d3 EXCEPT !.items = extract_items_smart(lines)]
      d5 == [d4 EXCEPT !.items = with_placeholder(@)]
  IN [d5 EXCEPT !.confidence = calculate_confidence(d5, text)]

(* ------------------------------------------------------------------ *)
(* Inputs                                                              *)
(* ------------------------------------------------------------------ *)

LineMerchant ==
  <<"T", "o", "k", "o", " ", "M", "a", "j", "u", " ", "J", "a", "y", "a">>

LineDate ==
  <<"0", "1", "/", "0", "2", "/", "2", "0", "2", "4">>

LineItem ==
  <<"K", "o", "p", "i", " ", "2", " ", "x", " ", "1", "5", "0", "0", "0">>

LineTotal ==
  <<"T", "O", "T", "A", "L", " ", "R", "P", " ", "3", "0", "0", "0", "0">>

LineBadDate ==
  <<"3", "2", "/", "1", "3", "/", "2", "0", "2", "4">>

LineMonthName ==
  <<"1", "2", " ", "M", "a", "y", " ", "2", "0", "2", "4">>

LinePadded ==
  <<" ", "M", "i", "l", "k", " ", "5", "0", "0", "0", " ">>

LineLowerMilk ==
  <<"m", "i", "l", "k", " ", "5", "0", "0", "0">>

LineQty ==
  <<"Q", "t", "y", " ", "1", "2">>

LineNoDigits ==
  <<"T", "e", "h", " ", "2", " ", "x", " ", ".", " ", "5", "0", "0", "0">>

LineBlank ==
  <<" ">>

LineFourGroups ==
  <<"M", "i", "l", "k", " ", "2", " ", "1", "0", "0", "0", " ", "2", "1",
    "0", "0">>

LineDayFirst ==
  <<"1", "2", "/", "0", "5", "/", "2", "0", "2", "4">>

LineShortYear ==
  <<"2", "4", "/", "5", "/", "9">>

LineLaterDate ==
  <<"0", "3", "/", "0", "4", "/", "2", "0", "2", "5">>

LineTotalShort ==
  <<"T", "O", "T", "A", "L", " ", "1", "2">>

LineZeroQty ==
  <<"M", "i", "l", "k", " ", "0", " ", "1", "0", "0", "0", " ", "0">>

LineFourRejected ==
  <<"M", "i", "l", "k", " ", "2", " ", "1", "0", "0", "0", " ", "2", "5",
    "0", "0">>

LineMonthUpper ==
  <<"3", " ", "D", "E", "C", " ", "2", "0", "2", "3">>

LineYearFirst ==
  <<"2", "0", "2", "4", "/", "0", "5", "/", "1", "2">>

LineYearFirstDash ==
  <<"2", "0", "2", "4", "-", "0", "5", "-", "1", "2">>

LineZeroTotal ==
  <<"T", "O", "T", "A", "L", " ", "0", ".", "0", "0">>

LineTotalTwo ==
  <<"T", "O", "T", "A", "L", " ", "1", "2", " ", "R", "P", " ", "5", "0",
    "0", "0">>

LineParenQty ==
  <<"M", "i", "l", "k", " ", "(", "2", ")", " ", "5", "0", "0", "0">>

LineKasir ==
  <<"K", "a", "s", "i", "r", " ", "1", "2", "0", "0", "0">>

LineNoDot ==
  <<"N", "o", ".", " ", "5", "0", "0", "0">>

LineNasiItem ==
  <<"N", "a", "s", "i", " ", "i", "t", "e", "m", " ", "1", "2", "0", "0",
    "0">>

LineSymbols ==
  <<"a", "#", "#", "b">>

\* a line of exactly 50 characters, and one of 49
LineFifty == [k \in 1..50 |-> "x"]

LineFortyNine == [k \in 1..49 |-> "x"]

PoolLines ==
  {LineMerchant, LineDate, LineItem, LineTotal, LineBadDate, LineMonthName,
   LinePadded, LineLowerMilk, LineNoDigits, LineBlank}

\* the receipt of the end-to-end scenario: four lines, 55 characters
ScenarioText ==
  join(<<"\n">>, <<LineMerchant, LineDate, LineItem, LineTotal>>)

\* the scenario with the date line unreadable, the total line first
ScenarioVariant ==
  join(<<"\n">>, <<LineTotal, LineBlank, LineItem, LineMerchant, LineQty>>)

\* a receipt of three-column item lines
ScenarioColumns ==
  join(<<"\n">>, <<LineMerchant, LineFourGroups, LineQty, LineDate>>)

\* receipts with a date line in each of the written forms
DateTexts ==
  {LineDayFirst, LineShortYear, LineMonthUpper,
   join(<<"\n">>, <<LineMerchant, LineDate, LineLaterDate>>),
   join(<<"\n">>, <<LineMonthName, LineLaterDate>>)}

\* receipts with amounts of few digits and with three-column item lines
AmountTexts ==
  {join(<<"\n">>, <<LineMerchant, LineQty>>),
   join(<<"\n">>, <<LineTotalShort, LineQty>>),
   join(<<"\n">>, <<LineTotalShort, LineTotal>>),
   LineZeroQty,
   join(<<"\n">>, <<LineFourRejected, LineItem>>),
   join(<<"\n">>, <<LineItem, LinePadded, LineFourGroups, LineLowerMilk, LineItem>>)}

\* receipts with a year-first date, with totals of few or zero digits and
\* with item lines of the parenthesised and the unreadable-price forms
OrderTexts ==
  {LineYearFirst, LineYearFirstDash,
   join(<<"\n">>, <<LineZeroTotal, LineTotal>>),
   LineTotalTwo, LineParenQty, LineNoDigits}

\* receipts with header and footer lines that read like item lines
KeywordTexts ==
  {LineKasir, LineNoDot, join(<<"\n">>, <<LineNasiItem, LineItem>>)}

\* receipts whose merchant line is late, or too long, or mostly symbols
MerchantTexts ==
  {join(<<"\n">>, <<LineDate, LineItem, LineTotal, LineBadDate, LineMonthName,
                    LineMerchant>>),
   join(<<"\n">>, <<LineSymbols, LineMerchant>>),
   LineFifty, LineFortyNine}

ScenarioTexts ==
  {ScenarioText, ScenarioVariant, ScenarioColumns} \cup DateTexts \cup AmountTexts
    \cup OrderTexts \cup KeywordTexts \cup MerchantTexts

\* the texts smart_parse_receipt is applied to have at most MaxLines pool lines
MaxLines == 2

PoolTexts ==
  UNION {{join(<<"\n">>, ls) : ls \in [1..n -> PoolLines]} : n \in 1..MaxLines}

Texts == ScenarioTexts \cup PoolTexts

\* values of datetime.now().strftime('%Y-%m-%d')
Dates ==
  {<<"2", "0", "2", "5", "-", "0", "1", "-", "3", "1">>,
   <<"2", "0", "2", "6", "-", "1", "1", "-", "0", "2">>}

\* what pytesseract.image_to_string may return for an image and a config
OcrOutputs ==
  {<<" ", "\n">>,
   LineItem \o <<"\n">>,
   LineTotal,
   <<" ">> \o ScenarioText \o <<"\n">>}

\* one engine invocation: it raises, or returns a text
EngineOutcomes ==
  {[raised |-> TRUE, text |-> <<>>]}
    \cup {[raised |-> FALSE, text |-> t] : t \in OcrOutputs}

\* what arrives at /api/scan-receipt: no 'image' part, an empty filename,
\* bytes PIL cannot decode, or an image
Requests == {"no_file", "no_filename", "bad_bytes", "image"}

(* ------------------------------------------------------------------ *)
(* State                                                               *)
(* ------------------------------------------------------------------ *)

VARIABLES
  pc,              \* position of the request in scan_receipt and its callees
  request,         \* the request being handled
  image,           \* scan_receipt's image
  enhanced_image,  \* extract_text_multiple_configs' enhanced_image
  step,            \* position in enhance_image's try block
  enhance_raised,  \* whether enhance_image took its except branch
  i,               \* index of the configuration of the current pass
  results,         \* extract_text_multiple_configs' results
  calls,           \* the engine invocations made so far, with their outcomes
  extracted_text,  \* scan_receipt's extracted_text
  lines,           \* smart_parse_receipt's lines
  now,             \* the value datetime.now() gave smart_parse_receipt
  parsed_data,     \* smart_parse_receipt's parsed_data
  parse_calls,     \* number of calls of smart_parse_receipt
  response,        \* the response of scan_receipt
  enhance_calls,   \* number of calls of enhance_image
  ocr_processor,   \* the module's EnhancedReceiptOCR instance
  reqs,            \* the requests being served concurrently
  memo             \* smart_parse_receipt on the texts of those requests

vars ==
  <<pc, request, image, enhanced_image, step, enhance_raised, i, results,
    calls, extracted_text, lines, now, parsed_data, parse_calls, response,
    enhance_calls, ocr_processor, reqs, memo>>

\* self.configs
configs ==
  <<"--oem 3 --psm 6 -c tessedit_char_whitelist=0123456789ABCDEFGHIJKLMNOPQRSTUVWXYZabcdefghijklmnopqrstuvwxyz.,-:/()* ",
    "--oem 3 --psm 4",
    "--oem 3 --psm 11",
    "--oem 3 --psm 13",
    "--oem 1 --psm 6">>

\* ocr_processor = EnhancedReceiptOCR(): __init__ sets self.configs only
EnhancedReceiptOCR == [configs |-> configs]

\* the statements of enhance_image's try block
enhance_steps ==
  <<"cvtColor_RGB2BGR", "cvtColor_BGR2GRAY", "resize", "GaussianBlur",
    "adaptiveThreshold", "threshold_OTSU", "threshold_127", "bitwise_and",
    "morphologyEx_OPEN", "morphologyEx_CLOSE", "dilate", "filter2D",
    "fromarray">>

NoData ==
  [merchantName |-> <<>>, date |-> <<>>, items |-> <<>>, total |-> 0,
   confidence |-> 0, raw_text |-> <<>>]

NoResponse == [status |-> 0, error |-> "", data |-> NoData]

NoFileMsg == "No image file provided"

NoFilenameMsg == "No image file selected"

NoTextMsg ==
  "No text could be extracted from the image. Please try a clearer image."

ProcessingErrorMsg == "Error processing receipt"

error_response(status, msg) == [status |-> status, error |-> msg, data |-> NoData]

Init ==
  /\ pc = "idle"
  /\ request = "none"
  /\ image = "none"
  /\ enhanced_image = "none"
  /\ step = 0
  /\ enhance_raised = FALSE
  /\ i = 0
  /\ results = <<>>
  /\ calls = <<>>
  /\ extracted_text = <<>>
  /\ lines = <<>>
  /\ now = <<>>
  /\ parsed_data = NoData
  /\ parse_calls = 0
  /\ response = NoResponse
  /\ enhance_calls = 0
  /\ ocr_processor = EnhancedReceiptOCR
  /\ reqs = <<>>
  /\ memo = <<>>

(* ------------------------------------------------------------------ *)
(* scan_receipt, up to the recognition                                 *)
(* ------------------------------------------------------------------ *)

\* a request arrives
Receive ==
  /\ pc = "idle"
  /\ \E r \in Requests : request' = r
  /\ pc' = "check_file"
  /\ UNCHANGED <<image, enhanced_image, step, enhance_raised, i, results,
                 calls, extracted_text, lines, now, parsed_data, parse_calls,
                 response,
                 enhance_calls, ocr_processor, reqs, memo>>

\* 'image' not in request.files, image_file.filename == ''
CheckFile ==
  /\ pc = "check_file"
  /\ IF request = "no_file"
     THEN response' = error_response(400, NoFileMsg) /\ pc' = "done"
     ELSE IF request = "no_filename"
     THEN response' = error_response(400, NoFilenameMsg) /\ pc' = "done"
     ELSE response' = response /\ pc' = "decode"
  /\ UNCHANGED <<request, image, enhanced_image, step, enhance_raised, i,
                 results, calls, extracted_text, lines, now, parsed_data,
                 parse_calls,
                 enhance_calls, ocr_processor, reqs, memo>>

\* Image.open(io.BytesIO(image_bytes)) and image.convert('RGB'); an
\* exception is handled by scan_receipt's except clause
Decode ==
  /\ pc = "decode"
  /\ IF request = "bad_bytes"
     THEN /\ response' = error_response(500, ProcessingErrorMsg)
          /\ pc' = "done"
          /\ UNCHANGED <<image, step, enhance_calls>>
     ELSE /\ image' = "original"
          /\ step' = 1
          /\ enhance_calls' = enhance_calls + 1
          /\ pc' = "enhance"
          /\ UNCHANGED response
  /\ UNCHANGED <<request, enhanced_image, enhance_raised, i, results, calls,
                 extracted_text, lines, now, parsed_data, parse_calls,
                 ocr_processor, reqs, memo>>

(* ------------------------------------------------------------------ *)
(* EnhancedReceiptOCR.enhance_image                                    *)
(* ------------------------------------------------------------------ *)

\* `return Image.fromarray(sharpened)`
enhance_result(img) == "enhanced"

\* an except branch that returns no image
enhance_fallback_none(img) == "none"

\* `except Exception as e: ... return image`
enhance_fallback(img) == img

\* one statement of the try block completes (the resize is skipped for an
\* image at least 1000 pixels high, which changes nothing here)
EnhanceStep ==
  /\ pc = "enhance"
  /\ step <= Len(enhance_steps)
  /\ IF step = Len(enhance_steps)
     THEN /\ enhanced_image' = enhance_result(image)
          /\ i' = 1
          /\ pc' = "pass_enhanced"
          /\ UNCHANGED step
     ELSE /\ step' = step + 1
          /\ UNCHANGED <<enhanced_image, i, pc>>
  /\ UNCHANGED <<request, image, enhance_raised, results, calls,
                 extracted_text, lines, now, parsed_data, parse_calls,
                 response,
                 enhance_calls, ocr_processor, reqs, memo>>

\* the current statement of the try block raises
EnhanceRaise ==
  /\ pc = "enhance"
  /\ step <= Len(enhance_steps)
  /\ enhanced_image' = enhance_fallback(image)
  /\ enhance_raised' = TRUE
  /\ i' = 1
  /\ pc' = "pass_enhanced"
  /\ UNCHANGED <<request, image, step, results, calls, extracted_text, lines,
                 now, parsed_data, parse_calls, response,
                 enhance_calls, ocr_processor, reqs, memo>>

(* ------------------------------------------------------------------ *)
(* EnhancedReceiptOCR.extract_text_multiple_configs                    *)
(* ------------------------------------------------------------------ *)

\* if text.strip(): results.append((text.strip(), tag))
collect(rs, text, tag) ==
  IF Len(strip(text)) > 0
  THEN Append(rs, [text |-> strip(text), tag |-> tag])
  ELSE rs

\* the first result, whatever its length
first_result(rs) == rs[1]

\* the last of the longest results
last_longest_result(rs) ==
  rs[CHOOSE k \in 1..Len(rs) :
       /\ \A j \in 1..Len(rs) : Len(rs[j].text) <= Len(rs[k].text)
       /\ \A j \in (k + 1)..Len(rs) : Len(rs[j].text) < Len(rs[k].text)]

\* max(results, key=lambda x: len(x[0])): the first of the longest
best_result(rs) ==
  rs[Least({k \in 1..Len(rs) :
              \A j \in 1..Len(rs) : Len(rs[j].text) <= Len(rs[k].text)})]

\* a selection that needs two results
select_text_of_many(rs) == IF Len(rs) > 1 THEN best_result(rs).text ELSE <<>>

\* `if results: ... return best_result[0]  else: return ""`
select_text(rs) == IF Len(rs) > 0 THEN best_result(rs).text ELSE <<>>

\* pytesseract.image_to_string(enhanced_image, config=config, ...)
PassEnhanced ==
  /\ pc = "pass_enhanced"
  /\ \E out \in EngineOutcomes :
       /\ calls' = Append(calls, [pass |-> "enhanced", image |-> enhanced_image,
                                  config |-> i, out |-> out])
       /\ IF out.raised
          THEN \* except: continue
               /\ results' = results
               /\ IF i < Len(configs)
                  THEN i' = i + 1 /\ pc' = "pass_enhanced"
                  ELSE i' = i /\ pc' = "select"
          ELSE /\ results' = collect(results, out.text, <<"enhanced_config", i>>)
               /\ IF i = 1
                  THEN i' = i /\ pc' = "pass_original"
                  ELSE IF i < Len(configs)
                  THEN i' = i + 1 /\ pc' = "pass_enhanced"
                  ELSE i' = i /\ pc' = "select"
  /\ UNCHANGED <<request, image, enhanced_image, step, enhance_raised,
                 extracted_text, lines, now, parsed_data, parse_calls,
                 response,
                 enhance_calls, ocr_processor, reqs, memo>>

\* an original-image pass that is run again when it raised
PassOriginalRetried ==
  /\ pc = "pass_original"
  /\ \E out \in EngineOutcomes :
       /\ calls' = Append(calls, [pass |-> "original", image |-> image,
                                  config |-> i, out |-> out])
       /\ results' = IF out.raised THEN results
                     ELSE collect(results, out.text, <<"original_config", i>>)
       /\ IF out.raised
          THEN i' = i /\ pc' = "pass_original"
          ELSE i' = i + 1 /\ pc' = "pass_enhanced"
  /\ UNCHANGED <<request, image, enhanced_image, step, enhance_raised,
                 extracted_text, lines, now, parsed_data, parse_calls,
                 response, enhance_calls, ocr_processor, reqs, memo>>

\* `if i == 0`: pytesseract.image_to_string(image, config=config, ...)
PassOriginal ==
  /\ pc = "pass_original"
  /\ \E out \in EngineOutcomes :
       /\ calls' = Append(calls, [pass |-> "original", image |-> image,
                                  config |-> i, out |-> out])
       /\ results' = IF out.raised THEN results
                     ELSE collect(results, out.text, <<"original_config", i>>)
  /\ IF i < Len(configs)
     THEN i' = i + 1 /\ pc' = "pass_enhanced"
     ELSE i' = i /\ pc' = "select"
  /\ UNCHANGED <<request, image, enhanced_image, step, enhance_raised,
                 extracted_text, lines, now, parsed_data, parse_calls,
                 response,
                 enhance_calls, ocr_processor, reqs, memo>>

\* "Return the longest result as it's likely more complete"
Select ==
  /\ pc = "select"
  /\ extracted_text' = select_text(results)
  /\ pc' = "check_text"
  /\ UNCHANGED <<request, image, enhanced_image, step, enhance_raised, i,
                 results, calls, lines, now, parsed_data, parse_calls,
                 response,
                 enhance_calls, ocr_processor, reqs, memo>>

(* ------------------------------------------------------------------ *)
(* scan_receipt, after the recognition                                 *)
(* ------------------------------------------------------------------ *)

\* a test that never finds the text empty
never_no_text(text) == FALSE

\* `not extracted_text`
no_text(text) == Len(text) = 0

\* `if not extracted_text: return ... 400`; the locals of
\* extract_text_multiple_configs are gone
CheckText ==
  /\ pc = "check_text"
  /\ IF no_text(extracted_text)
     THEN response' = error_response(400, NoTextMsg) /\ pc' = "done"
     ELSE response' = response /\ pc' = "parse"
  /\ enhanced_image' = "none"
  /\ step' = 0
  /\ i' = 0
  /\ results' = <<>>
  /\ calls' = <<>>
  /\ UNCHANGED <<request, image, enhance_raised, extracted_text, lines, now,
                 parsed_data, parse_calls,
                 enhance_calls, ocr_processor, reqs, memo>>

\* smart_parse_receipt: lines and the initial parsed_data
ParseBegin ==
  /\ pc = "parse"
  /\ \E d \in Dates :
       /\ now' = d
       /\ parsed_data' = new_parsed_data(extracted_text, d)
  /\ lines' = lines_of(extracted_text)
  /\ parse_calls' = parse_calls + 1
  /\ pc' = "merchant"
  /\ UNCHANGED <<request, image, enhanced_image, step, enhance_raised, i,
                 results, calls, extracted_text, response,
                 enhance_calls, ocr_processor, reqs, memo>>

\* "Extract merchant name (first few clean lines)"
ParseMerchant ==
  /\ pc = "merchant"
  /\ parsed_data' = [parsed_data EXCEPT !.merchantName = extract_merchant(lines)]
  /\ pc' = "date"
  /\ UNCHANGED <<request, image, enhanced_image, step, enhance_raised, i,
                 results, calls, extracted_text, lines, now, parse_calls,
                 response,
                 enhance_calls, ocr_processor, reqs, memo>>

\* "Enhanced date extraction"
ParseDate ==
  /\ pc = "date"
  /\ parsed_data' =
       [parsed_data EXCEPT !.date = extract_date(lines, parsed_data.date)]
  /\ pc' = "total"
  /\ UNCHANGED <<request, image, enhanced_image, step, enhance_raised, i,
                 results, calls, extracted_text, lines, now, parse_calls,
                 response,
                 enhance_calls, ocr_processor, reqs, memo>>

\* "Enhanced total extraction"; int() raising would leave smart_parse_receipt
\* and reach scan_receipt's except clause
ParseTotal ==
  /\ pc = "total"
  /\ LET total == extract_total(lines, parsed_data.total)
     IN IF total = ValueError
        THEN /\ response' = error_response(500, ProcessingErrorMsg)
             /\ pc' = "done"
             /\ UNCHANGED parsed_data
        ELSE /\ parsed_data' = [parsed_data EXCEPT !.total = total]
             /\ pc' = "items"
             /\ UNCHANGED response
  /\ UNCHANGED <<request, image, enhanced_image, step, enhance_raised, i,
                 results, calls, extracted_text, lines, now, parse_calls,
                 enhance_calls, ocr_processor, reqs, memo>>

\* "Enhanced item extraction"
ParseItems ==
  /\ pc = "items"
  /\ parsed_data' = [parsed_data EXCEPT !.items = extract_items_smart(lines)]
  /\ pc' = "placeholder"
  /\ UNCHANGED <<request, image, enhanced_image, step, enhance_raised, i,
                 results, calls, extracted_text, lines, now, parse_calls,
                 response,
                 enhance_calls, ocr_processor, reqs, memo>>

\* "If no items found, add one empty item"
ParsePlaceholder ==
  /\ pc = "placeholder"
  /\ parsed_data' = [parsed_data EXCEPT !.items = with_placeholder(parsed_data.items)]
  /\ pc' = "confidence"
  /\ UNCHANGED <<request, image, enhanced_image, step, enhance_raised, i,
                 results, calls, extracted_text, lines, now, parse_calls,
                 response,
                 enhance_calls, ocr_processor, reqs, memo>>

\* a scoring step that also reverts the items to the extracted ones
ParseConfidenceRevertingItems ==
  /\ pc = "confidence"
  /\ parsed_data' =
       [parsed_data EXCEPT
          !.confidence = calculate_confidence(parsed_data, extracted_text),
          !.items = extract_items_smart(lines)]
  /\ pc' = "respond"
  /\ UNCHANGED <<request, image, enhanced_image, step, enhance_raised, i,
                 results, calls, extracted_text, lines, now, parse_calls,
                 response, enhance_calls, ocr_processor, reqs, memo>>

\* "Calculate confidence", and the return
ParseConfidence ==
  /\ pc = "confidence"
  /\ parsed_data' =
       [parsed_data EXCEPT
          !.confidence = calculate_confidence(parsed_data, extracted_text)]
  /\ pc' = "respond"
  /\ UNCHANGED <<request, image, enhanced_image, step, enhance_raised, i,
                 results, calls, extracted_text, lines, now, parse_calls,
                 response,
                 enhance_calls, ocr_processor, reqs, memo>>

\* return jsonify({'success': True, 'data': parsed_data})
Respond ==
  /\ pc = "respond"
  /\ response' = [status |-> 200, error |-> "", data |-> parsed_data]
  /\ pc' = "done"
  /\ UNCHANGED <<request, image, enhanced_image, step, enhance_raised, i,
                 results, calls, extracted_text, lines, now, parsed_data,
                 parse_calls,
                 enhance_calls, ocr_processor, reqs, memo>>

Parse ==
  \/ ParseBegin
  \/ ParseMerchant
  \/ ParseDate
  \/ ParseTotal
  \/ ParseItems
  \/ ParsePlaceholder
  \/ ParseConfidence
  \/ Respond

Next ==
  \/ Receive
  \/ CheckFile
  \/ Decode
  \/ EnhanceStep
  \/ EnhanceRaise
  \/ PassEnhanced
  \/ PassOriginal
  \/ Select
  \/ CheckText
  \/ Parse

\* a request to /api/scan-receipt
Spec == Init /\ [][Next]_vars

\* smart_parse_receipt applied to a text of Texts
InitParse ==
  /\ pc = "parse"
  /\ request = "image"
  /\ image = "original"
  /\ enhanced_image = "none"
  /\ step = 0
  /\ enhance_raised = FALSE
  /\ i = 0
  /\ results = <<>>
  /\ calls = <<>>
  /\ extracted_text \in Texts
  /\ lines = <<>>
  /\ now = <<>>
  /\ parsed_data = NoData
  /\ parse_calls = 0
  /\ response = NoResponse
  /\ enhance_calls = 0
  /\ ocr_processor = EnhancedReceiptOCR
  /\ reqs = <<>>
  /\ memo = <<>>

SpecParse == InitParse /\ [][Parse]_vars

(* ------------------------------------------------------------------ *)
(* Concurrent requests to scan_receipt on the one ocr_processor        *)
(* ------------------------------------------------------------------ *)

\* the variables of the request followed alone
single ==
  <<pc, request, image, enhanced_image, step, enhance_raised, i, results,
    calls, extracted_text, lines, now, parsed_data, parse_calls, response,
    enhance_calls>>

\* two clients, each posting its own receipt image
Clients == {"first", "second"}

image_of(client) == IF client = "first" THEN "receipt_a" ELSE "receipt_b"

\* what the engine reads in each receipt when it does not raise
engine_text(img) ==
  IF img = "receipt_a" THEN LineTotal ELSE LineItem \o <<"\n">>

\* pytesseract.image_to_string on a rendering of img: it raises or returns
engine_outcomes(img) ==
  {[raised |-> TRUE, text |-> <<>>], [raised |-> FALSE, text |-> engine_text(img)]}

\* the texts extract_text_multiple_configs can return for the clients' images
recognizable == {strip(engine_text(image_of(c))) : c \in Clients}

\* smart_parse_receipt on those texts at each time, tabulated once
parsed == [text \in recognizable, d \in Dates |-> smart_parse_receipt(text, d)]

\* the locals of one execution of scan_receipt and its callees
new_request(client) ==
  [pc |-> "enhance", image |-> image_of(client), enhanced_image |-> "none",
   i |-> 0, results |-> <<>>, outs |-> <<>>, now |-> <<>>,
   response |-> NoResponse]

InitConcurrent ==
  /\ pc = "idle"
  /\ request = "none"
  /\ image = "none"
  /\ enhanced_image = "none"
  /\ step = 0
  /\ enhance_raised = FALSE
  /\ i = 0
  /\ results = <<>>
  /\ calls = <<>>
  /\ extracted_text = <<>>
  /\ lines = <<>>
  /\ now = <<>>
  /\ parsed_data = NoData
  /\ parse_calls = 0
  /\ response = NoResponse
  /\ enhance_calls = 0
  /\ ocr_processor = EnhancedReceiptOCR
  /\ reqs = [c \in Clients |-> new_request(c)]
  /\ memo = parsed

\* an instance whose configuration list is consumed by the pass
processor_consumed(self) == [self EXCEPT !.configs = Tail(@)]

\* the instance after a statement of extract_text_multiple_configs: self is
\* read (self.configs, self.enhance_image), never assigned
processor_after(self) == self

\* enhanced_image = self.enhance_image(image), for the request of client c
ConcurrentEnhance(c) ==
  /\ reqs[c].pc = "enhance"
  /\ \E img \in {enhance_result(reqs[c].image), enhance_fallback(reqs[c].image)} :
       reqs' = [reqs EXCEPT ![c].enhanced_image = img,
                            ![c].i = 1,
                            ![c].pc = "pass_enhanced"]
  /\ ocr_processor' = processor_after(ocr_processor)
  /\ UNCHANGED <<single, memo>>

\* the enhanced-image pass of configuration i, for the request of client c
ConcurrentPassEnhanced(c) ==
  /\ reqs[c].pc = "pass_enhanced"
  /\ LET r == reqs[c]
         more == r.i < Len(ocr_processor.configs)
     IN \E out \in engine_outcomes(r.image) :
          reqs' =
            [reqs EXCEPT
               ![c].outs = Append(r.outs, out),
               ![c].results =
                 IF out.raised THEN r.results
                 ELSE collect(r.results, out.text, <<"enhanced_config", r.i>>),
               ![c].i = IF (~out.raised /\ r.i = 1) \/ ~more THEN r.i ELSE r.i + 1,
               ![c].pc = IF ~out.raised /\ r.i = 1 THEN "pass_original"
                         ELSE IF more THEN "pass_enhanced" ELSE "select"]
  /\ ocr_processor' = processor_after(ocr_processor)
  /\ UNCHANGED <<single, memo>>

\* the original-image pass of the first configuration, for client c
ConcurrentPassOriginal(c) ==
  /\ reqs[c].pc = "pass_original"
  /\ LET r == reqs[c]
         more == r.i < Len(ocr_processor.configs)
     IN \E out \in engine_outcomes(r.image) :
          reqs' =
            [reqs EXCEPT
               ![c].outs = Append(r.outs, out),
               ![c].results =
                 IF out.raised THEN r.results
                 ELSE collect(r.results, out.text, <<"original_config", r.i>>),
               ![c].i = IF more THEN r.i + 1 ELSE r.i,
               ![c].pc = IF more THEN "pass_enhanced" ELSE "select"]
  /\ ocr_processor' = processor_after(ocr_processor)
  /\ UNCHANGED <<single, memo>>

\* the response scan_receipt builds from the selected text at time d, the
\* parse being looked up in the table
response_for(text, d) ==
  IF no_text(text) THEN error_response(400, NoTextMsg)
  ELSE [status |-> 200, error |-> "", data |-> memo[text, d]]

\* the selection, the parse and the response, for the request of client c
ConcurrentRespond(c) ==
  /\ reqs[c].pc = "select"
  /\ \E d \in Dates :
       reqs' = [reqs EXCEPT
                  ![c].now = d,
                  ![c].response = response_for(select_text(reqs[c].results), d),
                  ![c].pc = "done"]
  /\ ocr_processor' = processor_after(ocr_processor)
  /\ UNCHANGED <<single, memo>>

NextConcurrent ==
  \E c \in Clients :
    \/ ConcurrentEnhance(c)
    \/ ConcurrentPassEnhanced(c)
    \/ ConcurrentPassOriginal(c)
    \/ ConcurrentRespond(c)

\* two requests served at once, their steps interleaved in every way
SpecConcurrent == InitConcurrent /\ [][NextConcurrent]_vars

(* ------------------------------------------------------------------ *)
(* Properties                                                          *)
(* ------------------------------------------------------------------ *)

\* smart_parse_receipt has returned parsed_data to scan_receipt
Returned == pc = "respond" \/ (pc = "done" /\ response.status = 200)

Bool(b) == IF b THEN 1 ELSE 0

\* the stripped non-blank texts the engine invocations of `calls` returned
Collected ==
  {strip(calls[k].out.text) :
     k \in {j \in 1..Len(calls) :
              ~calls[j].out.raised /\ Len(strip(calls[j].out.text)) > 0}}

\* C1: once the placeholder step has run, `items` is never empty: it is
\* the single placeholder item (empty name, quantity 1, price 0) when
\* extract_items_smart yields no item for the text's lines, and otherwise
\* exactly the list extract_items_smart returned.
C1_ItemsNeverEmpty ==
  (pc = "confidence" \/ Returned) =>
    LET found == extract_items_smart(lines_of(extracted_text))
    IN /\ Len(parsed_data.items) > 0
       /\ IF Len(found) = 0
          THEN parsed_data.items = <<[name |-> <<>>, quantity |-> 1, price |-> 0]>>
          ELSE parsed_data.items = found

\* a text without item lines has been parsed to the placeholder
C1_Witness ==
  /\ Returned
  /\ Len(lines) > 0
  /\ extract_items_smart(lines) = <<>>
  /\ parsed_data.items = <<[name |-> <<>>, quantity |-> 1, price |-> 0]>>

\* C2: the confidence of a returned record (in hundredths) is
\* min(100, 25*[merchantName non-empty] + 35*[total > 0]
\*          + 25*[some item has a non-empty name] + 15*[raw text longer than 50]);
\* it lies in 0..100 and is 100 when all four hold.
C2_Confidence ==
  Returned =>
    LET d == parsed_data
        b1 == Len(d.merchantName) > 0
        b2 == d.total > 0
        b3 == \E k \in 1..Len(d.items) : Len(d.items[k].name) > 0
        b4 == Len(d.raw_text) > 50
        sum == 25 * Bool(b1) + 35 * Bool(b2) + 25 * Bool(b3) + 15 * Bool(b4)
    IN /\ d.raw_text = extracted_text
       /\ d.confidence = (IF sum < 100 THEN sum ELSE 100)
       /\ d.confidence \in 0..100
       /\ (b1 /\ b2 /\ b3 /\ b4 => d.confidence = 100)

\* a record with merchant, total, a named item and a long text: confidence 1.0
C2_Witness ==
  /\ Returned
  /\ Len(parsed_data.merchantName) > 0
  /\ parsed_data.total > 0
  /\ Len(parsed_data.items[1].name) > 0
  /\ Len(extracted_text) > 50
  /\ parsed_data.confidence = 100

\* a record with a total and a named item only: confidence 0.6
C2_WitnessPartial ==
  /\ Returned
  /\ Len(parsed_data.merchantName) = 0
  /\ parsed_data.total > 0
  /\ Len(parsed_data.items[1].name) > 0
  /\ Len(extracted_text) <= 50
  /\ parsed_data.confidence = 60

\* C3: the text "Toko Maju Jaya" / "01/02/2024" / "Kopi 2 x 15000" /
\* "TOTAL RP 30000" is parsed to merchantName "Toko Maju Jaya", date
\* "2024-02-01", the one item {Kopi, 2, 15000}, total 30000, confidence 1.0.
C3_Scenario ==
  (Returned /\ extracted_text = ScenarioText) =>
    /\ parsed_data.merchantName = LineMerchant
    /\ parsed_data.date = <<"2", "0", "2", "4", "-", "0", "2", "-", "0", "1">>
    /\ parsed_data.items =
         <<[name |-> <<"K", "o", "p", "i">>, quantity |-> 2, price |-> 15000]>>
    /\ parsed_data.total = 30000
    /\ parsed_data.confidence = 100

\* the scenario text has been parsed
C3_Witness ==
  /\ pc = "done"
  /\ response.status = 200
  /\ extracted_text = ScenarioText
  /\ Len(lines) = 4
  /\ response.data = parsed_data

\* C4: the text extract_text_multiple_configs returns is one of the
\* non-blank (stripped) texts its passes collected and no collected text is
\* longer, whichever configuration and image produced it.
C4_LongestWins ==
  pc = "check_text" =>
    LET texts == Collected
    IN texts # {} =>
         /\ extracted_text \in texts
         /\ \A t \in texts : Len(t) <= Len(extracted_text)

\* the longest text came from a later configuration, after a shorter one
C4_Witness ==
  /\ pc = "check_text"
  /\ Len(calls) = Len(configs) + 1
  /\ Len(strip(calls[1].out.text)) > 0
  /\ Len(strip(calls[1].out.text)) < Len(extracted_text)
  /\ calls[4].config = 3
  /\ ~calls[4].out.raised
  /\ strip(calls[4].out.text) = extracted_text
  /\ \A k \in 1..Len(calls) : k # 4 => Len(strip(calls[k].out.text)) < Len(extracted_text)

\* C5: extract_text_multiple_configs returns the empty string exactly when
\* every pass it ran raised or returned text that is blank after stripping.
C5_EmptyIffNothing ==
  pc = "check_text" =>
    ((Len(extracted_text) = 0)
       <=> (\A k \in 1..Len(calls) :
              calls[k].out.raised \/ Len(strip(calls[k].out.text)) = 0))

\* passes raised and returned blank text, and the result is empty
C5_Witness ==
  /\ pc = "check_text"
  /\ Len(extracted_text) = 0
  /\ \E k \in 1..Len(calls) : calls[k].out.raised
  /\ \E k \in 1..Len(calls) :
       ~calls[k].out.raised /\ Len(calls[k].out.text) > 0

\* one pass alone returned text, and it is the result
C5_WitnessOne ==
  /\ pc = "check_text"
  /\ Len(extracted_text) > 0
  /\ Cardinality({k \in 1..Len(calls) :
                    ~calls[k].out.raised /\ Len(strip(calls[k].out.text)) > 0}) = 1

\* C6 (as claimed): when extract_text_multiple_configs returns, every pass
\* has been run whatever the other passes did - each configuration on the
\* enhanced image and the first configuration on the original image - and
\* every non-blank text a pass returned is among the results.
C6_PassesIsolated ==
  pc = "check_text" =>
    /\ \A c \in 1..Len(configs) :
         \E k \in 1..Len(calls) : calls[k].pass = "enhanced" /\ calls[k].config = c
    /\ \E k \in 1..Len(calls) : calls[k].pass = "original" /\ calls[k].config = 1
    /\ \A t \in Collected : \E j \in 1..Len(results) : results[j].text = t

\* no pass returned non-blank text
NoPassProducedText ==
  \A k \in 1..Len(calls) :
    calls[k].out.raised \/ Len(strip(calls[k].out.text)) = 0

\* C7: when no pass has produced text, scan_receipt answers 400 with the
\* no-text message, which is not the 500 processing failure, and the request
\* ends without smart_parse_receipt having been called.
C7_NoTextFailure ==
  [][(pc = "check_text" /\ NoPassProducedText) =>
       /\ response' = error_response(400, NoTextMsg)
       /\ response' # error_response(500, ProcessingErrorMsg)
       /\ response'.status # 500
       /\ pc' = "done"
       /\ parse_calls' = 0]_vars

\* the request of an image ended with the no-text failure
C7_Witness ==
  /\ pc = "done"
  /\ request = "image"
  /\ image = "original"
  /\ response.status = 400
  /\ response.error = NoTextMsg
  /\ parse_calls = 0

\* C8: after enhance_image took its except branch, the passes run, all on
\* the original image (enhanced_image is the input image), every
\* configuration that is reached is still tried, and the request does not end
\* in the 500 processing failure.
C8_EnhanceFallback ==
  enhance_raised =>
    /\ pc \in {"pass_enhanced", "pass_original", "select", "check_text"} =>
         /\ image = "original"
         /\ enhanced_image = image
         /\ \A k \in 1..Len(calls) : calls[k].image = image
    /\ pc = "check_text" =>
         /\ Len(calls) >= Len(configs)
         /\ \A c \in 1..Len(configs) : \E k \in 1..Len(calls) : calls[k].config = c
    /\ pc = "done" => response.status \in {200, 400}
    /\ response.status # 500

\* the normalizer failed and the receipt was parsed all the same
C8_Witness ==
  /\ enhance_raised
  /\ pc = "done"
  /\ response.status = 200
  /\ parse_calls = 1

\* the conditions under which a line gives the merchant name
qualifies_as_merchant(line) ==
  /\ ~search(digit_run, line, FALSE).ok
  /\ Len(line) > 3
  /\ Len(line) < 50
  /\ Len(clean_name(line)) > 3

IsDigits(s) == \A k \in 1..Len(s) : s[k] \in Digits

\* YYYY-MM-DD
IsIsoDate(d) ==
  /\ Len(d) = 10
  /\ d[5] = "-"
  /\ d[8] = "-"
  /\ IsDigits(SubSeq(d, 1, 4))
  /\ IsDigits(SubSeq(d, 6, 7))
  /\ IsDigits(SubSeq(d, 9, 10))

IsLeapYear(y) == (y % 4 = 0 /\ y % 100 # 0) \/ y % 400 = 0

DaysInMonth(y, m) ==
  IF m = 2 THEN (IF IsLeapYear(y) THEN 29 ELSE 28)
  ELSE IF m \in {4, 6, 9, 11} THEN 30 ELSE 31

\* a well-formed ISO date that is a day of the calendar
IsCalendarDate(d) ==
  /\ IsIsoDate(d)
  /\ int(SubSeq(d, 1, 4)) >= 1
  /\ int(SubSeq(d, 6, 7)) \in 1..12
  /\ int(SubSeq(d, 9, 10)) \in 1..DaysInMonth(int(SubSeq(d, 1, 4)), int(SubSeq(d, 6, 7)))

\* C10 (as claimed): the date of every returned record is a well-formed
\* YYYY-MM-DD string with a four-digit year that denotes a real calendar
\* date, a candidate such as month 13 or day 32 having been skipped.
C10_DateIsCalendarDate ==
  Returned => IsCalendarDate(parsed_data.date)

TextOf(ls) == join(<<"\n">>, ls)

\* C11 (as claimed): the line "12/05/2024" gives the date "2024-05-12" and
\* the line "24/5/9" gives the date "2009-05-24".
C11_DateExamples ==
  /\ (Returned /\ extracted_text = LineDayFirst) =>
       parsed_data.date = <<"2", "0", "2", "4", "-", "0", "5", "-", "1", "2">>
  /\ (Returned /\ extracted_text = LineShortYear) =>
       parsed_data.date = <<"2", "0", "0", "9", "-", "0", "5", "-", "2", "4">>

\* the digits of what total pattern p captures in the line, <<>> without a match
captured_digits(line, p) ==
  LET m == search(total_patterns[p], line, TRUE)
  IN IF m.ok THEN digits_only(group(line, m, 1)) ELSE <<>>

\* C12: the total of a returned record is never negative; when nonzero it is
\* the integer value of the digits, at least 3 of them, of what a total
\* pattern captured in a line; when every capture has fewer than 3 digits
\* (as for a text whose only numeric line is "Qty 12") the total is 0.
C12_TotalDigits ==
  Returned =>
    LET ls == lines_of(extracted_text)
        amounts == {captured_digits(ls[k], p) :
                      k \in 1..Len(ls), p \in 1..Len(total_patterns)}
    IN /\ parsed_data.total >= 0
       /\ parsed_data.total # 0 =>
            \E a \in amounts : Len(a) >= 3 /\ int(a) = parsed_data.total
       /\ (\A a \in amounts : Len(a) < 3) => parsed_data.total = 0
       /\ extracted_text = TextOf(<<LineMerchant, LineQty>>) =>
            parsed_data.total = 0

\* a total pattern captured two digits only and the total stayed 0
C12_Witness ==
  /\ Returned
  /\ extracted_text = TextOf(<<LineTotalShort, LineQty>>)
  /\ captured_digits(lines[1], 1) = <<"1", "2">>
  /\ parsed_data.total = 0

\* a later line gave the total after a two-digit capture was passed over
C12_WitnessLater ==
  /\ Returned
  /\ extracted_text = TextOf(<<LineTotalShort, LineTotal>>)
  /\ parsed_data.total = 30000

\* C13 (as claimed): every item of a returned record has a quantity of at
\* least 1 and a price of at least 0.
C13_ItemBounds ==
  Returned =>
    \A k \in 1..Len(parsed_data.items) :
      parsed_data.items[k].quantity >= 1 /\ parsed_data.items[k].price >= 0

\* C14: a line the 4-group grammar matches, with captures that convert,
\* appends the item {name, qty, unitPrice} exactly when unitPrice > 0 and
\* |qty * unitPrice - lineTotal| <= 15% of lineTotal, and nothing otherwise:
\* 2 x 1000 against 2100 is accepted, against 2500 rejected.
C14_Tolerance ==
  (pc = "placeholder" \/ Returned) =>
    /\ \A k \in 1..Len(lines) :
         LET m == search(patterns[1].re, lines[k], TRUE)
             qty == int(group(lines[k], m, 2))
             unitPrice == int(digits_only(group(lines[k], m, 3)))
             lineTotal == int(digits_only(group(lines[k], m, 4)))
             diff == IF qty * unitPrice >= lineTotal
                     THEN qty * unitPrice - lineTotal
                     ELSE lineTotal - qty * unitPrice
         IN (m.ok /\ unitPrice # ValueError /\ lineTotal # ValueError) =>
              item_of_line(lines[k], 1) =
                IF unitPrice > 0 /\ diff * 100 <= lineTotal * 15
                THEN <<[name |-> strip(group(lines[k], m, 1)),
                        quantity |-> qty, price |-> unitPrice]>>
                ELSE <<>>
    /\ extracted_text = TextOf(<<LineFourRejected, LineItem>>) =>
         parsed_data.items =
           <<[name |-> <<"K", "o", "p", "i">>, quantity |-> 2, price |-> 15000]>>
    /\ extracted_text = ScenarioColumns =>
         parsed_data.items =
           <<[name |-> <<"M", "i", "l", "k">>, quantity |-> 2, price |-> 1000]>>

\* the line of total 2500 was rejected, the item line after it kept
C14_Witness ==
  /\ Returned
  /\ extracted_text = TextOf(<<LineFourRejected, LineItem>>)
  /\ search(patterns[1].re, lines[1], TRUE).ok
  /\ Len(parsed_data.items) = 1
  /\ parsed_data.items[1].quantity = 2

\* the line of total 2100 was accepted
C14_WitnessAccepted ==
  /\ Returned
  /\ extracted_text = ScenarioColumns
  /\ parsed_data.items[1].price = 1000

\* the key of the deduplication, as the claim states it
lowered_key(item) == <<strip(lower(item.name)), item.price>>

\* the candidates the deduplication does not filter out as invalid
is_valid(item) == Len(item.name) > 0 /\ item.price > 0

\* C15: the items extract_items_smart returns have pairwise different keys
\* (lower-cased trimmed name, price); each is the first valid candidate of
\* its key in line order, every valid candidate's key is represented, and
\* the items are in the order of the lines ("Milk" 5000 then "milk" 5000
\* gives the single item "Milk").
C15_Dedup ==
  pc = "placeholder" =>
    LET items == parsed_data.items
        cands == collect_items(lines)
        firsts == {c \in 1..Len(cands) :
                     /\ is_valid(cands[c])
                     /\ \A b \in 1..(c - 1) :
                          is_valid(cands[b]) =>
                            lowered_key(cands[b]) # lowered_key(cands[c])}
        at(j) == CHOOSE c \in firsts : lowered_key(cands[c]) = lowered_key(items[j])
    IN /\ \A a, b \in 1..Len(items) :
            a # b => lowered_key(items[a]) # lowered_key(items[b])
       /\ Len(items) = Cardinality(firsts)
       /\ \A j \in 1..Len(items) :
            /\ \E c \in firsts : lowered_key(cands[c]) = lowered_key(items[j])
            /\ items[j] = cands[at(j)]
       /\ \A a, b \in 1..Len(items) : a < b => at(a) < at(b)
       /\ extracted_text = TextOf(<<LinePadded, LineLowerMilk>>) =>
            items = <<[name |-> <<"M", "i", "l", "k">>, quantity |-> 1,
                       price |-> 5000]>>

\* duplicates in letter case and exact duplicates were dropped, the order kept
C15_Witness ==
  /\ pc = "placeholder"
  /\ Len(collect_items(lines)) = 5
  /\ Len(parsed_data.items) = 3
  /\ parsed_data.items[2].name = <<"M", "i", "l", "k">>
  /\ parsed_data.items[2].price = 5000
  /\ parsed_data.items[3].price = 1000

\* whether a numeric date pattern matches the line
has_date(line) ==
  \E p \in 1..2 : search(date_patterns[p], line, TRUE).ok

\* C19 (as claimed): the date of a returned record is the one of the first
\* line, in line order, that contains a date; later lines do not override it.
C19_FirstDateLineWins ==
  Returned =>
    LET ls == lines_of(extracted_text)
    IN \A k \in 1..Len(ls) :
         (has_date(ls[k]) /\ \A j \in 1..(k - 1) : ~has_date(ls[j])) =>
           parsed_data.date = date_of_line(ls[k], 1, now)

\* C20 (as claimed): a text whose only date-like line is "12 May 2024" gives
\* the date "2024-05-12", and "3 DEC 2023" gives "2023-12-03".
C20_MonthNameDate ==
  /\ (Returned /\ extracted_text = LineMonthName) =>
       parsed_data.date = <<"2", "0", "2", "4", "-", "0", "5", "-", "1", "2">>
  /\ (Returned /\ extracted_text = LineMonthUpper) =>
       parsed_data.date = <<"2", "0", "2", "3", "-", "1", "2", "-", "0", "3">>

\* C16: within a request enhance_image is called once (never twice, and
\* once by the time the passes run), each configuration is run at most once
\* on the enhanced image, only the first configuration is run, at most once,
\* on the original image, so no pass is retried, and there are at most
\* Len(configs) + 1 engine invocations; smart_parse_receipt is called at
\* most once.
C16_NoRetry ==
  /\ enhance_calls <= 1
  /\ pc \in {"enhance", "pass_enhanced", "pass_original", "select",
             "check_text", "parse"} => enhance_calls = 1
  /\ parse_calls <= 1
  /\ Len(calls) <= Len(configs) + 1
  /\ \A a, b \in 1..Len(calls) :
       (a # b /\ calls[a].pass = calls[b].pass) => calls[a].config # calls[b].config
  /\ \A k \in 1..Len(calls) :
       /\ calls[k].config \in 1..Len(configs)
       /\ calls[k].pass = "original" => calls[k].config = 1

\* all the passes have run, one raised and one returned blank text, none twice
C16_Witness ==
  /\ pc = "select"
  /\ enhance_calls = 1
  /\ Len(calls) = Len(configs) + 1
  /\ calls[2].pass = "original"
  /\ calls[2].out.raised
  /\ ~calls[3].out.raised
  /\ Len(strip(calls[3].out.text)) = 0
  /\ calls[3].config = 2

\* the position of a stage in scan_receipt
stage(p) ==
  CASE p = "idle" -> 0
    [] p = "check_file" -> 1
    [] p = "decode" -> 2
    [] p = "enhance" -> 3
    [] p \in {"pass_enhanced", "pass_original"} -> 4
    [] p = "select" -> 5
    [] p = "check_text" -> 6
    [] p = "parse" -> 7
    [] p = "merchant" -> 8
    [] p = "date" -> 9
    [] p = "total" -> 10
    [] p = "items" -> 11
    [] p = "placeholder" -> 12
    [] p = "confidence" -> 13
    [] p = "respond" -> 14
    [] p = "done" -> 15

\* C17: the stages of a request run in the order normalizer, passes,
\* selection, field extraction, item extraction, placeholder, confidence,
\* response: a step stays in its stage, enters the next one, or ends the
\* request; and what a stage produced (the enhanced image during the
\* passes, the recognized text, merchantName, date, total, items,
\* confidence) is not changed by a later stage, the response carrying the
\* record the confidence was computed from.
C17_StageOrder ==
  [][/\ \/ stage(pc') = stage(pc)
        \/ stage(pc') = stage(pc) + 1
        \/ pc' = "done"
     /\ stage(pc) \in 4..5 /\ stage(pc') \in 4..5 => enhanced_image' = enhanced_image
     /\ stage(pc) >= 6 => extracted_text' = extracted_text
     /\ stage(pc) >= 8 => lines' = lines
     /\ stage(pc) >= 9 => parsed_data'.merchantName = parsed_data.merchantName
     /\ stage(pc) >= 10 => parsed_data'.date = parsed_data.date
     /\ stage(pc) >= 11 => parsed_data'.total = parsed_data.total
     /\ stage(pc) >= 13 => parsed_data'.items = parsed_data.items
     /\ stage(pc) >= 14 => parsed_data' = parsed_data
     /\ (pc = "respond" /\ pc' = "done") =>
          /\ response'.data = parsed_data
          /\ response'.data.confidence =
               calculate_confidence(response'.data, extracted_text)]_vars

\* a request went through every stage, the normalizer having succeeded
C17_Witness ==
  /\ pc = "done"
  /\ response.status = 200
  /\ ~enhance_raised
  /\ enhance_calls = 1
  /\ parse_calls = 1
  /\ Len(lines) > 0
  /\ Len(response.data.items) = 1
  /\ response.data.items[1].price = 0
  /\ response.data.confidence > 0

\* the results a request served alone collects from the engine outcomes outs
RECURSIVE collected_alone(_, _)
collected_alone(outs, rs) ==
  IF Len(outs) = 0 THEN rs
  ELSE collected_alone(Tail(outs),
                       IF Head(outs).raised THEN rs
                       ELSE collect(rs, Head(outs).text, <<"pass">>))

\* the number of engine invocations of a request served alone
passes_alone(outs) ==
  IF Len(outs) > 0 /\ ~outs[1].raised THEN Len(configs) + 1 ELSE Len(configs)

\* C18: whatever the interleaving of two concurrent requests, the shared
\* EnhancedReceiptOCR instance keeps its configuration list, and a finished
\* request has made the passes, and has the response, that its own image's
\* engine outcomes and its own clock give a request served alone.
C18_Independent ==
  /\ ocr_processor = [configs |-> configs]
  /\ \A c \in DOMAIN reqs :
       LET r == reqs[c]
       IN /\ \A k \in 1..Len(r.outs) : r.outs[k] \in engine_outcomes(image_of(c))
          /\ r.pc = "done" =>
               /\ Len(r.outs) = passes_alone(r.outs)
               /\ r.response =
                    response_for(select_text(collected_alone(r.outs, <<>>)), r.now)

\* both requests have finished, each with the record of its own receipt
C18_Witness ==
  /\ DOMAIN reqs = Clients
  /\ \A c \in Clients : reqs[c].pc = "done" /\ reqs[c].response.status = 200
  /\ reqs["first"].response.data.total = 30000
  /\ reqs["second"].response.data.total = 0
  /\ reqs["second"].response.data.items[1].price = 15000
  /\ reqs["first"].outs[1].raised

\* both requests are in their recognition passes at the same time
C18_WitnessInFlight ==
  /\ DOMAIN reqs = Clients
  /\ reqs["first"].pc = "pass_enhanced"
  /\ reqs["first"].i = 3
  /\ reqs["second"].pc = "pass_original"
  /\ Len(reqs["first"].results) = 2

\* C21 (as claimed): a year-first date with a four-digit year, "2024/05/12"
\* or "2024-05-12", gives the date "2024-05-12"; the day-first pattern does
\* not read part of it.
C21_YearFirstDate ==
  (Returned /\ extracted_text \in {LineYearFirst, LineYearFirstDash}) =>
    parsed_data.date = <<"2", "0", "2", "4", "-", "0", "5", "-", "1", "2">>

\* the (line, pattern) combinations whose capture has at least 3 digits
accepted_amounts(ls) ==
  {c \in (1..Len(ls)) \X (1..Len(total_patterns)) :
     Len(captured_digits(ls[c[1]], c[2])) >= 3}

\* the first combination of the set, in line order and then pattern order
first_combination(S) ==
  CHOOSE c \in S :
    \A d \in S : c[1] < d[1] \/ (c[1] = d[1] /\ c[2] <= d[2])

\* C22 (as claimed): the total of a returned record is the amount of the
\* first (line, pattern) combination, in line order and then pattern order,
\* whose capture has at least 3 digits, whatever the lines after it hold;
\* without such a combination it is 0.
C22_FirstAcceptedTotal ==
  Returned =>
    LET ls == lines_of(extracted_text)
        acc == accepted_amounts(ls)
        c == first_combination(acc)
    IN parsed_data.total =
         IF acc = {} THEN 0 ELSE int(captured_digits(ls[c[1]], c[2]))

\* the total patterns that match the line
matching_patterns(line) ==
  {p \in 1..Len(total_patterns) : search(total_patterns[p], line, TRUE).ok}

\* C23 (as claimed): a line contributes the capture of the first total
\* pattern that matches it and nothing else, so a text in which the first
\* matching pattern of every line captures fewer than 3 digits has total 0.
C23_FirstMatchOnly ==
  Returned =>
    LET ls == lines_of(extracted_text)
    IN (\A k \in 1..Len(ls) :
          matching_patterns(ls[k]) # {} =>
            Len(captured_digits(ls[k], Least(matching_patterns(ls[k])))) < 3)
       => parsed_data.total = 0

\* C24 (as claimed): the parenthesised-quantity grammar is tried before the
\* name-price grammar, so "Milk (2) 5000" gives the item named "Milk" with
\* quantity 2 and price 5000.
C24_ParenthesisedQuantity ==
  (Returned /\ extracted_text = LineParenQty) =>
    parsed_data.items =
      <<[name |-> <<"M", "i", "l", "k">>, quantity |-> 2, price |-> 5000]>>

\* the item patterns that match the line
matching_item_patterns(line) ==
  {p \in 1..Len(patterns) : search(patterns[p].re, line, TRUE).ok}

\* whether a price capture of pattern p in the line has no digit to parse
capture_raises(line, p) ==
  LET m == search(patterns[p].re, line, TRUE)
  IN m.ok /\ \E g \in 3..patterns[p].ngroups \cup {patterns[p].ngroups} :
               digits_only(group(line, m, g)) = <<>>

\* C25 (as claimed): a line for which the integer parsing of a capture
\* raises yields no item by any grammar, so a text of one such line is
\* returned with the placeholder item only.
C25_RaisingLineSkipped ==
  Returned =>
    LET ls == lines_of(extracted_text)
    IN (/\ Len(ls) = 1
        /\ matching_item_patterns(ls[1]) # {}
        /\ capture_raises(ls[1], Least(matching_item_patterns(ls[1]))))
       => parsed_data.items = <<[name |-> <<>>, quantity |-> 1, price |-> 0]>>

\* the header and footer keywords, in lower case
Keywords ==
  {<<"n", "a", "m", "a">>, <<"i", "t", "e", "m">>, <<"q", "t", "y">>,
   <<"h", "a", "r", "g", "a">>, <<"t", "o", "t", "a", "l">>,
   <<"g", "r", "a", "n", "d">>, <<"s", "u", "b">>, <<"k", "a", "s", "i", "r">>,
   <<"t", "a", "n", "g", "g", "a", "l">>, <<"n", "o", ".">>}

\* whether the line contains a keyword, letter case apart
contains_keyword(line) ==
  LET low == lower(line)
  IN \E kw \in Keywords :
       \E a \in 1..(Len(line) - Len(kw) + 1) :
         \A j \in 1..Len(kw) : low[a + j - 1] = kw[j]

\* C26: the items extract_items_smart returns are those of the lines without
\* a header or footer keyword: a line that contains NAMA, ITEM, QTY, HARGA,
\* TOTAL, GRAND, SUB, KASIR, TANGGAL or "NO." in any letter case is skipped
\* before any grammar is tried, so "Kasir 12000" and "No. 5000" give no item.
C26_KeywordLinesSkipped ==
  pc = "placeholder" =>
    /\ (\E k \in 1..Len(lines) : contains_keyword(lines[k])) =>
         parsed_data.items =
           extract_items_smart(SelectSeq(lines, LAMBDA l : ~contains_keyword(l)))
    /\ \A k \in 1..Len(lines) :
         contains_keyword(lines[k]) <=> is_header_footer(lines[k])
    /\ extracted_text \in {LineKasir, LineNoDot, LineTotal} =>
         parsed_data.items = <<>>

\* a keyword line that reads like an item line gave no item, the line after
\* it did
C26_Witness ==
  /\ pc = "placeholder"
  /\ extracted_text = TextOf(<<LineNasiItem, LineItem>>)
  /\ contains_keyword(lines[1])
  /\ item_of_line(lines[1], 1) # <<>>
  /\ Len(parsed_data.items) = 1
  /\ parsed_data.items[1].name = <<"K", "o", "p", "i">>

\* C27: every item extract_items_smart returns has a non-empty name and a
\* price above 0; in a returned record an item with an empty name or price 0
\* is the placeholder {"", 1, 0} and the only item of the list.
C27_ItemsValid ==
  /\ pc = "placeholder" =>
       \A k \in 1..Len(parsed_data.items) :
         Len(parsed_data.items[k].name) > 0 /\ parsed_data.items[k].price > 0
  /\ Returned =>
       \A k \in 1..Len(parsed_data.items) :
         (Len(parsed_data.items[k].name) = 0 \/ parsed_data.items[k].price = 0) =>
           /\ Len(parsed_data.items) = 1
           /\ parsed_data.items[1].name = <<>>
           /\ parsed_data.items[1].quantity = 1
           /\ parsed_data.items[1].price = 0
           /\ extract_items_smart(lines) = <<>>

\* a record of several items, each with a name and a price
C27_Witness ==
  /\ Returned
  /\ Len(parsed_data.items) = 3
  /\ \A k \in 1..3 :
       Len(parsed_data.items[k].name) > 0 /\ parsed_data.items[k].price > 0

\* a record whose only item is the placeholder
C27_WitnessPlaceholder ==
  /\ Returned
  /\ extracted_text = LineKasir
  /\ Len(parsed_data.items) = 1
  /\ parsed_data.items[1].price = 0

\* whether the line has three digits in a row
has_digit_run(line) ==
  \E a \in 1..(Len(line) - 2) :
    line[a] \in Digits /\ line[a + 1] \in Digits /\ line[a + 2] \in Digits

\* C28: merchantName is the cleaned form of the first of the first 5
\* non-empty trimmed lines that has no run of 3 digits, a length above 3 and
\* below 50 and a cleaned form longer than 3; without such a line among the
\* first 5 it is empty, whatever the lines after the fifth are.
C28_MerchantFirstFive ==
  Returned =>
    LET ls == lines_of(extracted_text)
        n == IF Len(ls) < 5 THEN Len(ls) ELSE 5
        cands == {k \in 1..n :
                    /\ ~has_digit_run(ls[k])
                    /\ Len(ls[k]) > 3
                    /\ Len(ls[k]) < 50
                    /\ Len(clean_name(ls[k])) > 3}
    IN parsed_data.merchantName =
         IF cands = {} THEN <<>> ELSE clean_name(ls[Least(cands)])

\* the only line that qualifies is the sixth: merchantName stayed empty
C28_Witness ==
  /\ Returned
  /\ Len(lines) = 6
  /\ lines[6] = LineMerchant
  /\ \A k \in 1..5 : has_digit_run(lines[k])
  /\ parsed_data.merchantName = <<>>

\* a line of symbols was passed over and the line after it taken; a line of
\* 50 characters was not taken, one of 49 was
C28_WitnessPassedOver ==
  /\ Returned
  /\ extracted_text = TextOf(<<LineSymbols, LineMerchant>>)
  /\ Len(clean_name(lines[1])) = 3
  /\ parsed_data.merchantName = LineMerchant

\* C29: a line the 4-group grammar matches, with captures that convert, and
\* that fails the arithmetic check yields no item: the grammars after it are
\* not tried on the line ("Milk 2 1000 2500" gives no item of price 2500);
\* every line without a keyword yields at most one candidate item.
C29_RejectedLineYieldsNothing ==
  pc = "placeholder" =>
    /\ \A k \in 1..Len(lines) :
         LET m == search(patterns[1].re, lines[k], TRUE)
             qty == int(group(lines[k], m, 2))
             unitPrice == int(digits_only(group(lines[k], m, 3)))
             lineTotal == int(digits_only(group(lines[k], m, 4)))
             consistent ==
               /\ unitPrice > 0
               /\ 100 * (qty * unitPrice - lineTotal) <= 15 * lineTotal
               /\ 100 * (lineTotal - qty * unitPrice) <= 15 * lineTotal
             found == item_of_line(lines[k], 1)
         IN /\ Len(found) <= 1
            /\ (/\ m.ok
                /\ unitPrice # ValueError
                /\ lineTotal # ValueError
                /\ ~consistent) => found = <<>>
    /\ extracted_text = TextOf(<<LineFourRejected, LineItem>>) =>
         \A j \in 1..Len(parsed_data.items) : parsed_data.items[j].price # 2500

\* the line of total 2500 matched the 4-group grammar and the name-price
\* grammar, and yielded nothing
C29_Witness ==
  /\ pc = "placeholder"
  /\ extracted_text = TextOf(<<LineFourRejected, LineItem>>)
  /\ search(patterns[1].re, lines[1], TRUE).ok
  /\ search(patterns[3].re, lines[1], TRUE).ok
  /\ item_of_line(lines[1], 1) = <<>>
  /\ Len(collect_items(lines)) = 1

\* C30: the passes run in the order enhanced configuration 1, original
\* configuration 1, enhanced configurations 2 to 5; the text
\* extract_text_multiple_configs returns is the stripped text of the earliest
\* pass, in that order, among those of greatest stripped length, and has no
\* leading or trailing whitespace.
C30_TieEarliestPass ==
  pc = "check_text" =>
    LET n == Len(calls)
        texts == [k \in 1..n |-> strip(calls[k].out.text)]
        kept == {k \in 1..n : ~calls[k].out.raised /\ Len(texts[k]) > 0}
        longest == {k \in kept : \A j \in kept : Len(texts[j]) <= Len(texts[k])}
    IN /\ \A k \in 1..n :
            /\ calls[k].pass = "original" => (k = 2 /\ calls[k].config = 1)
            /\ k = 1 => (calls[k].pass = "enhanced" /\ calls[k].config = 1)
            /\ k > 1 => calls[k - 1].config <= calls[k].config
       /\ kept # {} =>
            /\ extracted_text = texts[Least(longest)]
            /\ extracted_text[1] \notin Whitespace
            /\ extracted_text[Len(extracted_text)] \notin Whitespace
       /\ kept = {} => extracted_text = <<>>

\* two passes returned different texts of the same greatest length: the
\* earlier one was returned
C30_Witness ==
  /\ pc = "check_text"
  /\ Len(calls) = Len(configs) + 1
  /\ calls[2].pass = "original"
  /\ calls[2].out.text = LineTotal
  /\ calls[4].out.text = LineItem \o <<"\n">>
  /\ \A k \in 1..Len(calls) :
       calls[k].out.raised \/ Len(strip(calls[k].out.text)) <= Len(LineTotal)
  /\ extracted_text = LineTotal

====
